---- MODULE Spec2Model ----
(***************************************************************************)
(* Model of generate_paper_html.py: main() fetches an author's             *)
(* publications (get_author_publications), and writes the snapshot to      *)
(* three sinks (save_publications, save_publications_for_jekyll,           *)
(* generate_html_preview).                                                 *)
(*                                                                         *)
(* Python values are represented as follows.                               *)
(*   dict          a function whose DOMAIN is the set of keys present      *)
(*   int n         <<"int", n>> where a field may hold an int or a str     *)
(*   str           <<"str", chars>> (chars: the sequence of the code       *)
(*                 points) where a field may hold an int or a str, and     *)
(*                 a TLA+ string where the code only carries it through    *)
(*   None          NoneValue                                               *)
(*   file          Absent, or <<"file", chunks>>: the chunks written       *)
(***************************************************************************)
EXTENDS Integers, Sequences, FiniteSets, TLC

VARIABLES
    pc,            \* position of the process in main()
    clock,         \* what datetime.datetime.now() reads in this run, to the second
    run,           \* history: the number of this run in the working directory
    n,             \* len(author['publications'])
    i,             \* loop index of the for loop over author['publications'], 1-based
    stats,         \* local variable stats of get_author_publications
    publications,  \* local variable publications of get_author_publications
    data,          \* main's data: the returned snapshot, or NoneValue
    files,         \* the three output files in the working directory
    dataDir,       \* whether directory _data exists
    printed,       \* lines printed to standard output by this process
    exitStatus,    \* "none" while running, then the process's exit status
    fetched,       \* history: what scholarly.fill(pub) answered for each stub, in order
    attempts,      \* history: how many times each sink function was called
    failed,        \* history: the operations that failed in this process, in order
    files0         \* history: the files as they were when this process started

vars == <<pc, clock, run, n, i, stats, publications, data, files, dataDir, printed,
          exitStatus, fetched, attempts, failed, files0>>

(***************************************************************************)
(* Bounds of the model.                                                    *)
(***************************************************************************)
MaxPubs == 3
MaxFairPubs == 2
MaxNormPubs == 1
MaxRunPubs == 1
MaxRuns == 2

----------------------------------------------------------------------------
(* Python values *)

NoneValue == [NoneType |-> TRUE]
PyInt(k) == <<"int", k>>
PyStr(chars) == <<"str", chars>>

Get(d, k, default) == IF k \in DOMAIN d THEN d[k] ELSE default

(* A character is its code point: "2020" is <<50, 48, 50, 48>>. *)

(* The characters int() strips from both ends of a str: the ASCII blanks   *)
(* and the non-ASCII characters of Unicode 14 for which str.isspace holds. *)
Whitespace ==
    {9, 10, 11, 12, 13, 32, 133, 160, 5760} \cup (8192..8202)
    \cup {8232, 8233, 8239, 8287, 12288}

(* The digit zero of every script of decimal digits (Unicode 14, category  *)
(* Nd); the digits 0 to 9 of a script are ten consecutive code points.     *)
DecimalZeros ==
    {48, 1632, 1776, 1984, 2406, 2534, 2662, 2790, 2918, 3046, 3174, 3302,
     3430, 3558, 3664, 3792, 3872, 4160, 4240, 6112, 6160, 6470, 6608, 6784,
     6800, 6992, 7088, 7232, 7248, 42528, 43216, 43264, 43472, 43504, 43600,
     44016, 65296, 66720, 68912, 69734, 69872, 69942, 70096, 70384, 70736,
     70864, 71248, 71360, 71472, 71904, 72016, 72784, 73040, 73120, 92768,
     92864, 93008, 120782, 120792, 120802, 120812, 120822, 123200, 123632,
     125264, 130032}

IsDigit(c) == \E z \in DecimalZeros : z <= c /\ c <= z + 9
DigitVal(c) == c - (CHOOSE z \in DecimalZeros : z <= c /\ c <= z + 9)

Plus == 43
Minus == 45
Underscore == 95

(* s, a sequence of digits and underscores, from its first digit that is   *)
(* not a zero: the leading zeros add nothing to the value                  *)
significant(s) ==
    LET nonzero == {k \in 1..Len(s) : s[k] # Underscore /\ DigitVal(s[k]) # 0}
    IN  IF nonzero = {} THEN <<>>
        ELSE SubSeq(s, CHOOSE lo \in nonzero : \A k \in nonzero : lo <= k, Len(s))

(* the value of a sequence of digits and underscores, most significant first *)
PlaceValue(s) ==
    LET value[k \in 0..Len(s)] ==
            IF k = 0 THEN 0
            ELSE IF s[k] = Underscore THEN value[k - 1]
            ELSE 10 * value[k - 1] + DigitVal(s[k])
    IN  value[Len(s)]

DigitsValue(s) == CHOOSE r \in {PlaceValue(t) : t \in {significant(s)}} : TRUE

(* s without its leading and trailing whitespace *)
strip(s) ==
    LET kept == {k \in 1..Len(s) : s[k] \notin Whitespace}
    IN  IF kept = {} THEN <<>>
        ELSE SubSeq(s, CHOOSE lo \in kept : \A k \in kept : lo <= k,
                       CHOOSE hi \in kept : \A k \in kept : hi >= k)

(* The most digits int() converts (sys.int_info.default_max_str_digits;   *)
(* the program does not change it).                                        *)
MaxStrDigits == 4300

(* A str without surrounding whitespace, read as an integer: an optional   *)
(* sign followed by decimal digits of any script, with single underscores  *)
(* allowed between digits, and no more than MaxStrDigits digits.           *)
parse(s) ==
    LET signed == s # <<>> /\ s[1] \in {Plus, Minus}
        body == IF signed THEN Tail(s) ELSE s
    IN  IF /\ body # <<>>
           /\ \A k \in 1..Len(body) : IsDigit(body[k]) \/ body[k] = Underscore
           /\ IsDigit(body[1]) /\ IsDigit(body[Len(body)])
           /\ \A k \in 1..(Len(body) - 1) :
                  ~ (body[k] = Underscore /\ body[k + 1] = Underscore)
           /\ \/ Len(body) <= MaxStrDigits
              \/ Cardinality({k \in 1..Len(body) : IsDigit(body[k])}) <= MaxStrDigits
        THEN [ok |-> TRUE,
              val |-> IF signed /\ s[1] = Minus THEN 0 - DigitsValue(body)
                      ELSE DigitsValue(body)]
        ELSE [ok |-> FALSE, val |-> 0]

(* int(v): [ok |-> TRUE, val |-> the integer], or ok = FALSE where Python   *)
(* raises ValueError.  An int is itself; a str is stripped of whitespace   *)
(* and parsed.                                                             *)
int(v) ==
    IF v[1] = "int" THEN [ok |-> TRUE, val |-> v[2]]
    ELSE CHOOSE r \in {parse(s) : s \in {strip(v[2])}} : TRUE

(* "{}".format(v) of an int or a str: the characters *)
RECURSIVE NatChars(_)
NatChars(k) ==
    IF k < 10 THEN <<48 + k>>
    ELSE Append(NatChars(k \div 10), 48 + (k % 10))

format(v) ==
    IF v[1] = "str" THEN v[2]
    ELSE IF v[2] < 0 THEN <<Minus>> \o NatChars(0 - v[2]) ELSE NatChars(v[2])

----------------------------------------------------------------------------
(* The provider's answers *)

Y2020 == PyStr(<<50, 48, 50, 48>>)                 \* '2020'
Y2022 == PyStr(<<50, 48, 50, 50>>)                 \* '2022'
Y2021 == PyInt(2021)
Y2019 == PyStr(<<32, 50, 95, 48, 49, 1641, 10>>)   \* ' 2_01\u0669\n'
YNoDate == PyStr(<<110, 46, 100, 46>>)             \* 'n.d.'

BibKeys == {"title", "author", "journal", "conference", "pub_year", "abstract"}
FullBib(year) ==
    [title |-> "T", author |-> "A. Author, B. Author", journal |-> "J",
     conference |-> "C", pub_year |-> year, abstract |-> "Abs"]
Restrict(d, K) == [k \in K |-> d[k]]

(* An expanded publication (the value of scholarly.fill(pub)) before its   *)
(* identifier is known: author_pub_id, where present, is set by WithId.    *)
FullPub(bib) == [bib |-> bib, num_citations |-> 5, author_pub_id |-> 0]
WithId(t, id) ==
    [k \in DOMAIN t |-> IF k = "author_pub_id" THEN id ELSE t[k]]

(* Expanded publications of the pipeline specification: every key present, *)
(* or pub_year, author_pub_id or bib missing; the year a str of ASCII      *)
(* digits, an int, a str with blanks, an underscore and a digit of another *)
(* script, or a str that is no numeral.                                    *)
PubTemplates ==
    {FullPub(FullBib(y)) : y \in {Y2019, Y2020, Y2021, Y2022, YNoDate}}
    \cup {FullPub(Restrict(FullBib(Y2020), BibKeys \ {"pub_year"}))}
    \cup {Restrict(FullPub(FullBib(Y2020)), {"bib", "num_citations"})}
    \cup {Restrict(FullPub(FullBib(Y2020)), {"num_citations", "author_pub_id"})}

(* Expanded publications of the normalization specification: every subset  *)
(* of the keys that have a default, missing, or author_pub_id or bib       *)
(* missing; the values that are present are sound.                         *)
RichTemplates ==
    {Restrict(FullPub(Restrict(FullBib(y), K)), P) :
        y \in {Y2020, Y2022},
        K \in SUBSET BibKeys,
        P \in {{"bib", "author_pub_id"}, {"bib", "author_pub_id", "num_citations"}}}
    \cup {Restrict(FullPub(FullBib(Y2020)), {"bib", "num_citations"})}
    \cup {Restrict(FullPub(FullBib(Y2020)), {"num_citations", "author_pub_id"})}

(* Expanded publications of the repeated-runs specification. *)
RunTemplates == {FullPub(FullBib(y)) : y \in {Y2020, Y2022}}

(* The author record after scholarly.fill(author), without 'publications'. *)
AuthorDicts ==
    {[citedby |-> 10, hindex |-> 2, i10index |-> 1],
     [hindex |-> 2, i10index |-> 1]}

----------------------------------------------------------------------------
(* get_author_publications *)

UrlPrefix == "https://scholar.google.com/citations?view_op=view_citation&citation_for_view="

(* pub_dict with the two venue keys looked up in the other order *)
pub_dict_ConferenceFirst(pub_filled) ==
    LET bib == pub_filled["bib"]
    IN  [title |-> Get(bib, "title", ""),
         authors |-> Get(bib, "author", ""),
         venue |-> Get(bib, "conference", Get(bib, "journal", "")),
         year |-> Get(bib, "pub_year", PyInt(0)),
         citations |-> Get(pub_filled, "num_citations", 0),
         url |-> <<UrlPrefix, pub_filled["author_pub_id"]>>,
         abstract |-> Get(bib, "abstract", ""),
         bib_id |-> pub_filled["author_pub_id"]]

(* pub_dict with '' for a missing pub_year, as for the other bib keys *)
pub_dict_EmptyYearDefault(pub_filled) ==
    LET bib == pub_filled["bib"]
    IN  [title |-> Get(bib, "title", ""),
         authors |-> Get(bib, "author", ""),
         venue |-> Get(bib, "journal", Get(bib, "conference", "")),
         year |-> Get(bib, "pub_year", PyStr(<<>>)),
         citations |-> Get(pub_filled, "num_citations", 0),
         url |-> <<UrlPrefix, pub_filled["author_pub_id"]>>,
         abstract |-> Get(bib, "abstract", ""),
         bib_id |-> pub_filled["author_pub_id"]]

(* lines 37-46: the dict built from an expanded publication.  Defined where *)
(* 'bib' and 'author_pub_id' are present (KeyError otherwise).              *)
pub_dict(pub_filled) ==
    LET bib == pub_filled["bib"]
    IN  [title |-> Get(bib, "title", ""),
         authors |-> Get(bib, "author", ""),
         venue |-> Get(bib, "journal", Get(bib, "conference", "")),
         year |-> Get(bib, "pub_year", PyInt(0)),
         citations |-> Get(pub_filled, "num_citations", 0),
         url |-> <<UrlPrefix, pub_filled["author_pub_id"]>>,
         abstract |-> Get(bib, "abstract", ""),
         bib_id |-> pub_filled["author_pub_id"]]

RaisesKeyError(pub_filled) ==
    ~ ({"bib", "author_pub_id"} \subseteq DOMAIN pub_filled)

(* The loop body without its try/except: the exception leaves the loop *)
LoopBody_NoInnerTry(pubs, answer) ==
    IF answer[1] = "fail" \/ RaisesKeyError(answer[2])
    THEN [publications |-> pubs, msgs |-> <<>>, escaped |-> TRUE]
    ELSE [publications |-> Append(pubs, pub_dict(answer[2])),
          msgs |-> <<>>, escaped |-> FALSE]

(* What one iteration of the loop does, given the answer of                *)
(* scholarly.fill(pub): <<"fail">> (it raised) or <<"ok", pub_filled>>.    *)
(* escaped: the exception left the loop body (to the handler of line 65).  *)
LoopBody(pubs, answer) ==
    IF answer[1] = "fail" \/ RaisesKeyError(answer[2])
    THEN [publications |-> pubs, msgs |-> <<"Error processing publication">>,
          escaped |-> FALSE]
    ELSE [publications |-> Append(pubs, pub_dict(answer[2])),
          msgs |-> <<>>, escaped |-> FALSE]

(* line 57 *)
sort_key(x) == int(x["year"])

Reverse(s) == [k \in 1..Len(s) |-> s[Len(s) + 1 - k]]

(* s[a] comes before s[b] in the ascending stable order of the keys *)
ComesBefore(s, a, b) ==
    \/ sort_key(s[a]).val < sort_key(s[b]).val
    \/ sort_key(s[a]).val = sort_key(s[b]).val /\ a < b

(* The stable ascending sort: the element with k - 1 elements before it    *)
(* takes place k.                                                          *)
StableSortAsc(s) ==
    [k \in 1..Len(s) |->
        s[CHOOSE j \in 1..Len(s) :
              Cardinality({m \in 1..Len(s) : ComesBefore(s, m, j)}) = k - 1]]

(* list.sort(key=lambda x: int(x['year']), reverse=True): the keys are     *)
(* computed first (an exception leaves the list as it was); the list is    *)
(* reversed, sorted ascending by a stable sort, and reversed again.        *)
(* The sort without reverse=True *)
sort_Ascending(pubs) ==
    IF \E k \in 1..Len(pubs) : ~ sort_key(pubs[k]).ok
    THEN [raised |-> TRUE, list |-> pubs]
    ELSE [raised |-> FALSE, list |-> StableSortAsc(pubs)]

(* An ascending sort followed by list.reverse() *)
sort_ReverseAfter(pubs) ==
    IF \E k \in 1..Len(pubs) : ~ sort_key(pubs[k]).ok
    THEN [raised |-> TRUE, list |-> pubs]
    ELSE [raised |-> FALSE, list |-> Reverse(StableSortAsc(pubs))]

sort(pubs) ==
    IF \E k \in 1..Len(pubs) : ~ sort_key(pubs[k]).ok
    THEN [raised |-> TRUE, list |-> pubs]
    ELSE [raised |-> FALSE, list |-> Reverse(StableSortAsc(Reverse(pubs)))]

(* lines 59-63 *)
Snapshot(st, pubs, now) ==
    [stats |-> st, publications |-> pubs, last_updated |-> now]

----------------------------------------------------------------------------
(* Files *)

JsonFile == "publications.json"
YamlFile == "_data/publications.yml"
HtmlFile == "publications_preview.html"
Sinks == {JsonFile, YamlFile, HtmlFile}

Absent == <<"absent">>
File(chunks) == <<"file", chunks>>
Partial == <<"partial">>
OldDocument == <<"old">>

(* open(filename, 'a'): the file is created, or kept as it is *)
open_a(old) == IF old = Absent THEN File(<<>>) ELSE old
(* open(filename, 'w'): the file is created, or truncated to nothing *)
open_w(old) == File(<<>>)
write(f, chunk) == File(Append(f[2], chunk))

(* What a sink meets: nothing, a failure to create the directory, a failure *)
(* to open the file, or a failure while writing to the opened file.         *)
SinkFaults == {"none", "open", "write"}
JekyllFaults == SinkFaults \cup {"makedirs"}

----------------------------------------------------------------------------
(* The three encodings of a snapshot.  A dict is written as the sequence    *)
(* of its <<key, value>> pairs in insertion order.                          *)

Scalar(v) == IF v[1] = "int" THEN <<"number", v[2]>> ELSE <<"string", v[2]>>

StatsPairs(st) ==
    << <<"citations", <<"number", st.citations>> >>,
       <<"h_index", <<"number", st.h_index>> >>,
       <<"i10_index", <<"number", st.i10_index>> >> >>

PubPairs(p) ==
    << <<"title", <<"string", p.title>> >>,
       <<"authors", <<"string", p.authors>> >>,
       <<"venue", <<"string", p.venue>> >>,
       <<"year", Scalar(p.year)>>,
       <<"citations", <<"number", p.citations>> >>,
       <<"url", <<"string", p.url>> >>,
       <<"abstract", <<"string", p.abstract>> >>,
       <<"bib_id", <<"string", p.bib_id>> >> >>

SnapshotPairs(d) ==
    << <<"stats", StatsPairs(d.stats)>>,
       <<"publications", [k \in 1..Len(d.publications) |-> PubPairs(d.publications[k])]>>,
       <<"last_updated", <<"string", d.last_updated>> >> >>

(* json.dump(data, f, ensure_ascii=False, indent=2) *)
json_dump(d) == <<"json", SnapshotPairs(d)>>

(* yaml.dump(yaml_data, f, allow_unicode=True, sort_keys=False), yaml_data  *)
(* being the three fields of data, lines 171-175                            *)
yaml_dump(d) ==
    <<"yaml", SnapshotPairs([stats |-> d.stats, publications |-> d.publications,
                             last_updated |-> d.last_updated])>>

(* lines 132-147: the block of one publication *)
HtmlBlock(p) ==
    [year |-> format(p.year), href |-> p.url, title |-> p.title,
     authors |-> p.authors, venue |-> p.venue,
     citations |-> NatChars(p.citations)]

(* lines 86-154: the page *)
html_page(d) ==
    <<"html",
      <<NatChars(d.stats.citations), NatChars(d.stats.h_index),
        NatChars(d.stats.i10_index)>>,
      [k \in 1..Len(d.publications) |-> HtmlBlock(d.publications[k])],
      d.last_updated>>

----------------------------------------------------------------------------
(* The sinks: the file afterwards, what is printed, and whether an          *)
(* exception left the function.  (A failed write may raise more than once  *)
(* inside the with statement, from the dump and from the close of the      *)
(* file; one exception reaches the except clause.)                         *)

SinkResult(file, msg) ==
    [file |-> file, msgs |-> <<msg>>, escaped |-> FALSE]

(* What is left in the file, opened by `opened`, when the sink meets fault *)
Written(old, opened, document, fault) ==
    CASE fault = "none" -> write(opened, document)
      [] fault = "write" -> write(opened, Partial)
      [] OTHER -> old

(* save_publications without its try/except: the exception leaves it *)
save_publications_NoExcept(d, old, fault) ==
    [file |-> Written(old, open_w(old), json_dump(d), fault),
     msgs |-> IF fault = "none"
              THEN <<"Successfully saved publications to publications.json">>
              ELSE <<>>,
     escaped |-> fault # "none"]

save_publications(d, old, fault) ==
    SinkResult(Written(old, open_w(old), json_dump(d), fault),
               IF fault = "none" THEN "Successfully saved publications to publications.json"
               ELSE "Error saving publications")

save_publications_for_jekyll(d, old, fault) ==
    SinkResult(Written(old, open_w(old), yaml_dump(d), fault),
               IF fault = "none"
               THEN "Successfully saved publications to _data/publications.yml"
               ELSE "Error saving publications")

generate_html_preview(d, old, fault) ==
    SinkResult(Written(old, open_w(old), html_page(d), fault),
               IF fault = "none"
               THEN "Successfully generated HTML preview at publications_preview.html"
               ELSE "Error generating HTML preview")

----------------------------------------------------------------------------
(* The process *)

(* The readings of the wall clock, formatted to the second (line 62).  The *)
(* program never compares two readings: two runs have the same reading or  *)
(* different ones.                                                         *)
Timestamps == {1, 2}

NoAttempts == [f \in Sinks |-> 0]

(* A fresh process, started in a working directory holding `fs` *)
ProcessStart(fs, dir, now) ==
    /\ pc = "main"
    /\ clock = now
    /\ run = 1
    /\ n = 0
    /\ i = 1
    /\ stats = NoneValue
    /\ publications = <<>>
    /\ data = NoneValue
    /\ files = fs
    /\ dataDir = dir
    /\ printed = <<>>
    /\ exitStatus = "none"
    /\ fetched = <<>>
    /\ attempts = NoAttempts
    /\ failed = <<>>
    /\ files0 = fs

(* The working directory is empty, or holds the files of an earlier run *)
Init ==
    \/ ProcessStart([f \in Sinks |-> Absent], FALSE, 1)
    \/ ProcessStart([f \in Sinks |-> File(<<OldDocument>>)], TRUE, 1)

(* line 188 *)
Start ==
    /\ pc = "main"
    /\ printed' = Append(printed, "Fetching publications from Google Scholar...")
    /\ pc' = "search_author"
    /\ UNCHANGED <<clock, run, n, i, stats, publications, data, files, dataDir,
                   exitStatus, fetched, attempts, failed, files0>>

(* lines 65-67: the handler of get_author_publications.  An exception      *)
(* raised in the function's body is caught, reported, and None returned.   *)
(* get_author_publications without its handler: the exception leaves it,  *)
(* and main                                                               *)
ReturnNone_Reraise ==
    /\ pc' = "done"
    /\ exitStatus' = "1"
    /\ UNCHANGED <<data, printed>>

(* A handler that returns an empty snapshot in place of None *)
ReturnNone_EmptySnapshot ==
    /\ pc' = "returned"
    /\ data' = Snapshot([citations |-> 0, h_index |-> 0, i10_index |-> 0], <<>>, clock)
    /\ printed' = Append(printed, "Error fetching author data")
    /\ UNCHANGED exitStatus

ReturnNone ==
    /\ pc' = "returned"
    /\ data' = NoneValue
    /\ printed' = Append(printed, "Error fetching author data")
    /\ UNCHANGED exitStatus

(* line 16: scholarly.search_author_id(scholar_id) answers or raises *)
SearchAuthor ==
    /\ pc = "search_author"
    /\ \E ok \in BOOLEAN :
         IF ok
         THEN /\ pc' = "fill_author"
              /\ UNCHANGED <<data, printed, failed, exitStatus>>
         ELSE /\ ReturnNone
              /\ failed' = Append(failed, "author")
    /\ UNCHANGED <<clock, run, n, i, stats, publications, files, dataDir, fetched,
                   attempts, files0>>

(* lines 19-29: scholarly.fill(author) answers <<"ok", author, number of   *)
(* publications>> or raises; the stats are read from the author record     *)
(* (KeyError when a key is missing).                                       *)
FillAuthor(maxN) ==
    /\ pc = "fill_author"
    /\ \E answer \in {<<"fail">>}
                     \cup {<<"ok", a, m>> : a \in AuthorDicts, m \in 0..maxN} :
         IF answer[1] = "fail"
            \/ ~ ({"citedby", "hindex", "i10index"} \subseteq DOMAIN answer[2])
         THEN /\ ReturnNone
              /\ failed' = Append(failed, "author")
              /\ UNCHANGED <<n, i, stats, publications>>
         ELSE /\ stats' = [citations |-> answer[2]["citedby"],
                           h_index |-> answer[2]["hindex"],
                           i10_index |-> answer[2]["i10index"]]
              /\ n' = answer[3]
              /\ i' = 1
              /\ publications' = <<>>
              /\ pc' = "loop"
              /\ UNCHANGED <<data, printed, failed, exitStatus>>
    /\ UNCHANGED <<clock, run, files, dataDir, fetched, attempts, files0>>

(* lines 32-54: one iteration of the loop.  scholarly.fill(pub) raises, or *)
(* answers an expanded publication, one of Templates with the identifier   *)
(* of the i-th publication.  (time.sleep changes no state.)                *)
ProcessPub(Templates) ==
    /\ pc = "loop"
    /\ i <= n
    /\ \E answer \in {<<"fail">>} \cup {<<"ok", WithId(t, i)>> : t \in Templates} :
         LET r == LoopBody(publications, answer)
             out == Append(printed, "Processing publication") \o r.msgs
         IN  /\ fetched' = Append(fetched, answer)
             /\ publications' = r.publications
             /\ IF r.escaped
                THEN /\ pc' = "returned"
                     /\ data' = NoneValue
                     /\ printed' = Append(out, "Error fetching author data")
                ELSE /\ pc' = "loop"
                     /\ printed' = out
                     /\ UNCHANGED data
             /\ failed' = IF answer[1] = "fail" \/ RaisesKeyError(answer[2])
                        THEN Append(failed, "publication")
                        ELSE failed
    /\ i' = i + 1
    /\ UNCHANGED <<clock, run, n, stats, files, dataDir, exitStatus, attempts, files0>>

(* lines 56-63: the loop is over; sort and return the snapshot.  An        *)
(* exception raised by the sort reaches the handler of line 65.            *)
SortAndReturn ==
    /\ pc = "loop"
    /\ i > n
    /\ \E r \in {sort(publications)} :
           IF r.raised
           THEN /\ ReturnNone
                /\ failed' = Append(failed, "sort")
                /\ UNCHANGED publications
           ELSE /\ publications' = r.list
                /\ data' = Snapshot(stats, r.list, clock)
                /\ pc' = "returned"
                /\ UNCHANGED <<printed, failed, exitStatus>>
    /\ UNCHANGED <<clock, run, n, i, stats, files, dataDir, fetched, attempts, files0>>

(* lines 189-191, 207-208: if data *)
MainCheck ==
    /\ pc = "returned"
    /\ IF data = NoneValue
       THEN /\ printed' = Append(printed, "Failed to fetch publications")
            /\ pc' = "done"
            /\ exitStatus' = "0"
       ELSE /\ pc' = "save_json"
            /\ UNCHANGED <<printed, exitStatus>>
    /\ UNCHANGED <<clock, run, n, i, stats, publications, data, files, dataDir,
                   fetched, attempts, failed, files0>>

(* A call of a sink from main: an exception that leaves the sink leaves    *)
(* main too, and the process exits with status 1.                          *)
CallSink(f, fault, r, next) ==
    /\ files' = [files EXCEPT ![f] = r.file]
    /\ printed' = printed \o r.msgs
    /\ failed' = IF fault = "none" THEN failed ELSE Append(failed, f)
    /\ attempts' = [attempts EXCEPT ![f] = @ + 1]
    /\ IF r.escaped
       THEN pc' = "done" /\ exitStatus' = "1"
       ELSE pc' = next /\ UNCHANGED exitStatus
    /\ UNCHANGED <<clock, run, n, i, stats, publications, data, fetched, files0>>

(* line 193 *)
SaveJson ==
    /\ pc = "save_json"
    /\ \E fault \in SinkFaults :
         CallSink(JsonFile, fault, save_publications(data, files[JsonFile], fault),
                  "save_yaml")
    /\ UNCHANGED dataDir

(* line 196; os.makedirs('_data', exist_ok=True), line 168 *)
SaveYaml ==
    /\ pc = "save_yaml"
    /\ \E fault \in JekyllFaults :
         /\ CallSink(YamlFile, fault,
                     save_publications_for_jekyll(data, files[YamlFile], fault),
                     "gen_html")
         /\ dataDir' = (dataDir \/ fault # "makedirs")

(* line 199 *)
GenHtml ==
    /\ pc = "gen_html"
    /\ \E fault \in SinkFaults :
         CallSink(HtmlFile, fault, generate_html_preview(data, files[HtmlFile], fault),
                  "print_stats")
    /\ UNCHANGED dataDir

(* lines 201-206, then the process ends *)
PrintSummary ==
    /\ pc = "print_stats"
    /\ printed' = printed \o <<"Stats:", "Total citations", "h-index", "i10-index",
                               "Total publications processed", "Last updated">>
    /\ pc' = "done"
    /\ exitStatus' = "0"
    /\ UNCHANGED <<clock, run, n, i, stats, publications, data, files, dataDir,
                   fetched, attempts, failed, files0>>

(* The program is run again in the same working directory: within the     *)
(* same second as the run before, or at another time.                      *)
NextRun(maxRuns) ==
    /\ pc = "done"
    /\ run < maxRuns
    /\ pc' = "main"
    /\ run' = run + 1
    /\ clock' \in Timestamps
    /\ n' = 0
    /\ i' = 1
    /\ stats' = NoneValue
    /\ publications' = <<>>
    /\ data' = NoneValue
    /\ printed' = <<>>
    /\ exitStatus' = "none"
    /\ fetched' = <<>>
    /\ attempts' = NoAttempts
    /\ failed' = <<>>
    /\ files0' = files
    /\ UNCHANGED <<files, dataDir>>

Fetch(Templates, maxN) ==
    \/ SearchAuthor
    \/ FillAuthor(maxN)
    \/ ProcessPub(Templates)
    \/ SortAndReturn

Main(Templates, maxN) ==
    \/ Start
    \/ Fetch(Templates, maxN)
    \/ MainCheck
    \/ SaveJson
    \/ SaveYaml
    \/ GenHtml
    \/ PrintSummary

(* One run of the program *)
Next == Main(PubTemplates, MaxPubs)
Spec == Init /\ [][Next]_vars

(* One run of the program: the process is single-threaded and each step   *)
(* (a provider call that answers or raises, a bounded sleep, a file write) *)
(* ends, so a step that can be taken is taken.                             *)
NextFair == Main(PubTemplates, MaxFairPubs)
FairSpec == Init /\ [][NextFair]_vars /\ WF_vars(NextFair)

(* get_author_publications alone, over every shape of expanded publication *)
InitNorm ==
    /\ ProcessStart([f \in Sinks |-> Absent], FALSE, 1)
NextNorm == Start \/ Fetch(RichTemplates, MaxNormPubs)
SpecNorm == InitNorm /\ [][NextNorm]_vars

(* Repeated runs of the program in one working directory *)
InitRuns == ProcessStart([f \in Sinks |-> Absent], FALSE, 1)
NextRuns == Main(RunTemplates, MaxRunPubs) \/ NextRun(MaxRuns)
SpecRuns == InitRuns /\ [][NextRuns]_vars

----------------------------------------------------------------------------
(* Vocabulary of the properties *)

Range(s) == {s[k] : k \in 1..Len(s)}
Count(s, S) == Cardinality({k \in 1..Len(s) : s[k] \in S})

(* get_author_publications has returned to main *)
Returned ==
    pc \in {"returned", "save_json", "save_yaml", "gen_html", "print_stats", "done"}
(* the author lookup, the author expansion or the stats extraction failed *)
AuthorFailed == Returned /\ stats = NoneValue
SnapshotReturned == Returned /\ data # NoneValue

(* an answer of scholarly.fill(pub): expanded; carrying bib and identifier; *)
(* with a year that is missing or a numeral                                *)
Expanded(a) == a[1] = "ok"
HasRecord(a) ==
    /\ Expanded(a)
    /\ "bib" \in DOMAIN a[2]
    /\ "author_pub_id" \in DOMAIN a[2]
NumeralYear(a) ==
    "pub_year" \in DOMAIN a[2]["bib"] => int(a[2]["bib"]["pub_year"]).ok
WellFormed(a) == HasRecord(a) /\ NumeralYear(a)

(* the positions in pubs of the publication fetched k-th *)
Places(pubs, k) == {j \in 1..Len(pubs) : pubs[j]["bib_id"] = k}
YearOf(p) == int(p["year"]).val
(* the year of the k-th expanded record, as given: PyInt(0) stands for none *)
FetchedYear(k) == Get(fetched[k][2]["bib"], "pub_year", PyInt(0))

ErrorLines ==
    {"Error processing publication", "Error fetching author data",
     "Error saving publications", "Error generating HTML preview"}
IsErrorLine(line) == line \in ErrorLines
(* the message printed by the handler that catches the failure of `op` *)
MessageOf(op) ==
    CASE op = "publication" -> "Error processing publication"
      [] op \in {"author", "sort"} -> "Error fetching author data"
      [] op \in {JsonFile, YamlFile} -> "Error saving publications"
      [] op = HtmlFile -> "Error generating HTML preview"
SuccessLine(f) ==
    CASE f = JsonFile -> "Successfully saved publications to publications.json"
      [] f = YamlFile -> "Successfully saved publications to _data/publications.yml"
      [] f = HtmlFile -> "Successfully generated HTML preview at publications_preview.html"
Document(f, d) ==
    CASE f = JsonFile -> json_dump(d)
      [] f = YamlFile -> yaml_dump(d)
      [] f = HtmlFile -> html_page(d)

----------------------------------------------------------------------------
(* Properties *)

(* C1: whenever get_author_publications returns a snapshot, its            *)
(* publications are in non-increasing order of int(year).                  *)
C1_SortedByYearDescending ==
    SnapshotReturned =>
        \A a, b \in 1..Len(data.publications) :
            a < b => /\ int(data.publications[a]["year"]).ok
                     /\ int(data.publications[b]["year"]).ok
                     /\ YearOf(data.publications[a]) >= YearOf(data.publications[b])

(* A snapshot of three publications that were fetched in increasing order  *)
(* of year, one of them without a year.                                    *)
C1_Witness ==
    /\ SnapshotReturned
    /\ Len(data.publications) = 3
    /\ \A k \in 1..3 : WellFormed(fetched[k])
    /\ "pub_year" \notin DOMAIN fetched[1][2]["bib"]
    /\ FetchedYear(2) = Y2020
    /\ FetchedYear(3) = Y2022

(* C2: the sort is stable although descending: publications of equal year  *)
(* are in the snapshot in the order in which they were fetched; stubs of   *)
(* 2020, 2022, 2020 give the second, the first, the third.                 *)
C2_StableSort ==
    SnapshotReturned =>
        /\ \A a, b \in 1..Len(data.publications) :
               (a < b /\ YearOf(data.publications[a]) = YearOf(data.publications[b]))
                   => data.publications[a]["bib_id"] < data.publications[b]["bib_id"]
        /\ (/\ Len(fetched) = 3
            /\ \A k \in 1..3 : WellFormed(fetched[k])
            /\ <<FetchedYear(1), FetchedYear(2), FetchedYear(3)>> = <<Y2020, Y2022, Y2020>>)
           => <<data.publications[1]["bib_id"], data.publications[2]["bib_id"],
                data.publications[3]["bib_id"]>> = <<2, 1, 3>>

(* The snapshot of stubs of 2020, 2022, 2020 *)
C2_Witness ==
    /\ SnapshotReturned
    /\ Len(fetched) = 3
    /\ \A k \in 1..3 : WellFormed(fetched[k])
    /\ <<FetchedYear(1), FetchedYear(2), FetchedYear(3)>> = <<Y2020, Y2022, Y2020>>
    /\ Len(data.publications) = 3

(* C3: a stub whose detail expansion fails is skipped, every later stub is *)
(* processed, and, in a run where nothing else fails, a snapshot is        *)
(* returned that holds every other publication exactly once.               *)
C3_ExpansionFailureSkipsOnlyThatPublication ==
    /\ \A k \in 1..Len(fetched) :
           ~ Expanded(fetched[k]) => Places(publications, k) = {}
    /\ (Returned /\ ~ AuthorFailed) => Len(fetched) = n
    /\ (/\ Returned
        /\ ~ AuthorFailed
        /\ \A k \in 1..Len(fetched) : Expanded(fetched[k]) => WellFormed(fetched[k]))
       => /\ data # NoneValue
          /\ \A k \in 1..n :
                 Cardinality(Places(data.publications, k))
                     = IF Expanded(fetched[k]) THEN 1 ELSE 0
          /\ Len(data.publications) = Count(fetched, {a \in Range(fetched) : Expanded(a)})

(* The expansion of the second of three stubs failed; the snapshot holds   *)
(* the first and the third.                                                *)
C3_Witness ==
    /\ SnapshotReturned
    /\ Len(fetched) = 3
    /\ WellFormed(fetched[1])
    /\ ~ Expanded(fetched[2])
    /\ WellFormed(fetched[3])
    /\ {data.publications[j]["bib_id"] : j \in 1..Len(data.publications)} = {1, 3}

(* C4: when the author fetch fails, get_author_publications returns None,  *)
(* main calls no sink, no output file is created or modified, and main     *)
(* reports the failure.                                                    *)
C4_AuthorFailureWritesNothing ==
    AuthorFailed =>
        /\ data = NoneValue
        /\ attempts = NoAttempts
        /\ files = files0
        /\ "Error fetching author data" \in Range(printed)
        /\ \A f \in Sinks : SuccessLine(f) \notin Range(printed)
        /\ pc \in {"returned", "done"}
        /\ pc = "done" => printed[Len(printed)] = "Failed to fetch publications"

(* The author fetch failed in a directory that held earlier output *)
C4_Witness ==
    /\ AuthorFailed
    /\ pc = "done"
    /\ \A f \in Sinks : files0[f] = File(<<OldDocument>>)

(* C5: when a snapshot is returned, main calls the JSON sink, then the     *)
(* YAML sink, then the HTML sink, each exactly once, whichever of them     *)
(* fail; each failure is reported.                                         *)
C5_EverySinkAttemptedOnce ==
    SnapshotReturned =>
        /\ attempts[JsonFile] = (IF pc \in {"returned", "save_json"} THEN 0 ELSE 1)
        /\ attempts[YamlFile] = (IF pc \in {"returned", "save_json", "save_yaml"} THEN 0 ELSE 1)
        /\ attempts[HtmlFile] = (IF pc \in {"print_stats", "done"} THEN 1 ELSE 0)
        /\ exitStatus # "1"
        /\ Count(printed, {SuccessLine(f) : f \in Sinks}
                          \cup {"Error saving publications", "Error generating HTML preview"})
               = attempts[JsonFile] + attempts[YamlFile] + attempts[HtmlFile]

(* The JSON and YAML sinks failed and the HTML sink then succeeded *)
C5_Witness ==
    /\ pc = "done"
    /\ SnapshotReturned
    /\ files[JsonFile] = File(<<Partial>>)
    /\ files[YamlFile] = Absent
    /\ Count(printed, {"Error saving publications"}) = 2
    /\ files[HtmlFile] = File(<<html_page(data)>>)
    /\ SuccessLine(HtmlFile) \in Range(printed)

(* C6: whatever fails (the author fetch, the expansion of any              *)
(* publications, the sort, any of the sinks), every failure is printed as  *)
(* its message, one message for each failure and in the order of the       *)
(* failures, no exception leaves main, and main always runs to its end,    *)
(* where the process exits with status 0.                                  *)
C6_AlwaysExitsZero ==
    /\ [](/\ exitStatus # "1"
          /\ SelectSeq(printed, IsErrorLine)
                = [k \in 1..Len(failed) |-> MessageOf(failed[k])]
          /\ (pc = "done") = (exitStatus = "0"))
    /\ <>(pc = "done" /\ exitStatus = "0")

(* A run in which a publication's expansion and all three sinks failed *)
C6_Witness ==
    /\ pc = "done"
    /\ exitStatus = "0"
    /\ failed = <<"publication", JsonFile, YamlFile, HtmlFile>>
    /\ \E k \in 1..Len(fetched) : ~ Expanded(fetched[k])
    /\ \A f \in Sinks : SuccessLine(f) \notin Range(printed)

(* C7: the venue of a normalized publication is its journal where the      *)
(* expanded record has one, else its conference where it has one, else ""  *)
C7_VenueFallsBack ==
    \A k \in 1..Len(fetched) :
        HasRecord(fetched[k]) =>
            LET bib == fetched[k][2]["bib"]
            IN  /\ Cardinality(Places(publications, k)) = 1
                /\ \A j \in Places(publications, k) :
                       publications[j]["venue"] =
                           (IF "journal" \in DOMAIN bib THEN bib["journal"]
                            ELSE IF "conference" \in DOMAIN bib THEN bib["conference"]
                            ELSE "")

(* A record with a conference and no journal was normalized to a           *)
(* publication whose venue is the conference.                              *)
C7_Witness ==
    /\ Len(fetched) = 1
    /\ HasRecord(fetched[1])
    /\ "journal" \notin DOMAIN fetched[1][2]["bib"]
    /\ "conference" \in DOMAIN fetched[1][2]["bib"]
    /\ Len(publications) = 1
    /\ publications[1]["venue"] = "C"

(* The fields of publication p are those of the expanded record pf, with   *)
(* "" for a missing title, author, venue or abstract and 0 for a missing   *)
(* year or citation count.                                                 *)
DefaultsSubstituted(pf, p) ==
    LET bib == pf["bib"]
    IN  /\ p["title"] = (IF "title" \in DOMAIN bib THEN bib["title"] ELSE "")
        /\ p["authors"] = (IF "author" \in DOMAIN bib THEN bib["author"] ELSE "")
        /\ ({"journal", "conference"} \cap DOMAIN bib = {}) => p["venue"] = ""
        /\ p["abstract"] = (IF "abstract" \in DOMAIN bib THEN bib["abstract"] ELSE "")
        /\ p["year"] = (IF "pub_year" \in DOMAIN bib THEN bib["pub_year"] ELSE PyInt(0))
        /\ p["citations"] =
               (IF "num_citations" \in DOMAIN pf THEN pf["num_citations"] ELSE 0)

(* C8, as claimed: every expanded record, whichever of its keys are        *)
(* missing, is normalized with the defaults and kept in the snapshot.      *)
C8_AsClaimed ==
    \A k \in 1..Len(fetched) :
        Expanded(fetched[k]) =>
            /\ \E j \in Places(publications, k) :
                   DefaultsSubstituted(fetched[k][2], publications[j])
            /\ Returned => (data # NoneValue /\ Places(data.publications, k) # {})

(* C8, amended: every expanded record that carries 'bib' and               *)
(* 'author_pub_id', whichever of title, author, journal, conference,       *)
(* pub_year, abstract and num_citations are missing, is normalized with    *)
(* the defaults and kept once in the publication list, and so in the       *)
(* snapshot whenever one is returned.                                      *)
C8_DefaultsSubstitutedAndKept ==
    \A k \in 1..Len(fetched) :
        HasRecord(fetched[k]) =>
            /\ Cardinality(Places(publications, k)) = 1
            /\ \A j \in Places(publications, k) :
                   DefaultsSubstituted(fetched[k][2], publications[j])
            /\ SnapshotReturned =>
                   /\ Cardinality(Places(data.publications, k)) = 1
                   /\ \A j \in Places(data.publications, k) :
                          DefaultsSubstituted(fetched[k][2], data.publications[j])

(* A record with nothing but an empty bib and its identifier is in the     *)
(* snapshot, with every default.                                           *)
C8_Witness ==
    /\ SnapshotReturned
    /\ Len(fetched) = 1
    /\ HasRecord(fetched[1])
    /\ DOMAIN fetched[1][2] = {"bib", "author_pub_id"}
    /\ DOMAIN fetched[1][2]["bib"] = {}
    /\ Len(data.publications) = 1
    /\ data.publications[1]["year"] = PyInt(0)
    /\ data.publications[1]["citations"] = 0
    /\ data.publications[1]["title"] = ""
    /\ data.publications[1]["venue"] = ""

(* C9: after a run in which the fetch succeeded and a sink reported        *)
(* success, the sink's file holds the encoding of that run's snapshot and  *)
(* nothing else, whatever the file held before.                            *)
C9_SnapshotReplacesFile ==
    \A f \in Sinks :
        (SnapshotReturned /\ SuccessLine(f) \in Range(printed))
            => files[f] = File(<<Document(f, data)>>)

(* The second run ends with every sink successful, over the files that the *)
(* first run wrote successfully from a snapshot with other publications    *)
(* (the files differ by more than the time of the run).                    *)
C9_Witness ==
    /\ run = 2
    /\ pc = "done"
    /\ SnapshotReturned
    /\ Len(data.publications) = 1
    /\ \A f \in Sinks :
           /\ SuccessLine(f) \in Range(printed)
           /\ files0[f] # Absent
           /\ files0[f] # File(<<Partial>>)
           /\ \A now \in Timestamps :
                  files0[f] # File(<<Document(f, [data EXCEPT !.last_updated = now])>>)

(* C10, as claimed: once the author record and its stats are read,         *)
(* get_author_publications returns a snapshot, and the snapshot holds      *)
(* every publication whose own record is sound.                            *)
C10_AsClaimed ==
    (Returned /\ ~ AuthorFailed) =>
        /\ data # NoneValue
        /\ \A k \in 1..Len(fetched) :
               WellFormed(fetched[k]) => Cardinality(Places(data.publications, k)) = 1

====
